---- MODULE Spec2Model ----
(***************************************************************************)
(* The rolling 30-minute traffic history of the dashboard script app.py.   *)
(* One run of the script is one tick: the sidebar is drawn, the device     *)
(* snapshot is fetched, every device of the snapshot is recorded under its *)
(* own key and trimmed, the sum over the snapshot is recorded under the    *)
(* aggregate history and trimmed, and the chart reads one of the           *)
(* histories.  st.session_state survives from run to run; the variables of *)
(* the script do not.  Time is counted in minutes.                         *)
(***************************************************************************)
EXTENDS Integers, Sequences, FiniteSets, TLC

\* ---------------------------------------------------------------- bounds
MaxTicks == 3            \* runs of the script in one session
Step == 1                \* minutes between the first two clock readings
MaxT0 == 2               \* latest start minute of the scenario
MaxScenarioTicks == 45   \* runs of the script in the scenario
MaxPayload == 4          \* vulnerabilities in one response of the API
MaxRefreshTicks == 2     \* runs of the script under Live Updates
MaxFixedTicks == 2       \* runs of the script with the generator's devices

\* ------------------------------------------------------ program constants
Horizon == 30

AllDevices == "All Devices"

\* The names the Sample Source reports, in the order of its list.
DeviceList == <<"Home Printer", "Guest Android">>

\* (current_download_speed, current_upload_speed) pairs a device may carry:
\* the first device of the list alternates between two, the others report one.
RatePairs(n) == IF n = 1 THEN {<<5, 10>>, <<3, 7>>} ELSE {<<2, 2>>}

\* The wall-clock readings of a session: two readings Step minutes apart and
\* one a full horizon after the second.  The clock is the wall clock, so a
\* later run may read an earlier minute.
ClockValues == {0, Step, Horizon + Step}

VARIABLES
    device_traffic_history,  \* st.session_state.device_traffic_history
    traffic_history,         \* st.session_state.traffic_history
    clock,                   \* the wall clock datetime.now() reads
    pc,                      \* position of the script run
    ticks,                   \* number of the current run
    selected_device,         \* script variable selected_device
    df,                      \* script variable df: the rows of the snapshot
    current_time,            \* script variable current_time
    i,                       \* position of the loop over df.iterrows()
    history_data,            \* script variable history_data
    session_keys,            \* the keys present in st.session_state
    polls,                   \* calls of get_devices() so far
    tick_interval,           \* minutes between two runs of a regular session
    devices,                 \* NetworkTrafficGenerator.devices
    cached_cves,             \* CVEFetcher.cached_cves
    last_fetch_time,         \* CVEFetcher.last_fetch_time
    cve_response,            \* what the last get_ubiquiti_cves call met
    cve_return,              \* what the last get_ubiquiti_cves call returned
    auto_refresh,            \* script variable auto_refresh (the checkbox)
    refresh_rate,            \* script variable refresh_rate (the slider)
    slept,                   \* seconds of the last time.sleep, 0 if none yet
    security_alerts,         \* st.session_state.security_alerts
    alert_seq                \* alerts the generator has made so far

vars == <<device_traffic_history, traffic_history, clock, pc, ticks,
          selected_device, df, current_time, i, history_data,
          session_keys, polls, tick_interval, devices,
          cached_cves, last_fetch_time, cve_response, cve_return,
          auto_refresh, refresh_rate, slept, security_alerts, alert_seq>>

session == <<device_traffic_history, traffic_history>>

fetcher == <<cached_cves, last_fetch_time, cve_response, cve_return>>

controls == <<auto_refresh, refresh_rate, slept>>

alerts == <<security_alerts, alert_seq>>

\* what the steps of the history tracking leave alone
aside == <<session_keys, polls, tick_interval, devices, fetcher, controls,
           alerts>>

\* ------------------------------------------------------------ the store
EmptyHistory ==
    [timestamps |-> <<>>, download_speeds |-> <<>>, upload_speeds |-> <<>>]

NoTime == -1

\* as Cutoff, with a window one minute short
CutoffShort(now) == now - (Horizon - 1)

\* as Cutoff, with a window one minute long
CutoffLong(now) == now - (Horizon + 1)

\* as Cutoff, with the cutoff after the current time
CutoffAhead(now) == now + Horizon

\* cutoff_time = current_time - timedelta(minutes=30)
Cutoff(now) == now - Horizon

\* as ValidIndices, keeping only timestamps strictly after the cutoff
ValidIndicesStrict(timestamps, cutoff_time) ==
    SelectSeq([n \in 1..Len(timestamps) |-> n],
              LAMBDA n : timestamps[n] > cutoff_time)

\* as ValidIndices, dropping no more than the oldest entry when it is stale
ValidIndicesPopFirst(timestamps, cutoff_time) ==
    IF timestamps # <<>> /\ timestamps[1] < cutoff_time
    THEN [n \in 1..(Len(timestamps) - 1) |-> n + 1]
    ELSE [n \in 1..Len(timestamps) |-> n]

\* as ValidIndices, collecting the kept indices newest first
ValidIndicesNewestFirst(timestamps, cutoff_time) ==
    LET kept == SelectSeq([n \in 1..Len(timestamps) |-> n],
                          LAMBDA n : timestamps[n] >= cutoff_time)
    IN  [n \in 1..Len(kept) |-> kept[Len(kept) + 1 - n]]

\* as ValidIndices, cutting by position: everything from the first entry
\* that is not stale on
ValidIndicesFromFirstValid(timestamps, cutoff_time) ==
    LET valid == {n \in 1..Len(timestamps) : timestamps[n] >= cutoff_time}
    IN  IF valid = {} THEN <<>>
        ELSE LET first == CHOOSE n \in valid : \A m \in valid : n <= m
             IN  [n \in 1..(Len(timestamps) - first + 1) |-> first + n - 1]

\* as ValidIndices, keeping as many entries as are not stale, counted from
\* the front of the list
ValidIndicesFromFront(timestamps, cutoff_time) ==
    LET valid == {n \in 1..Len(timestamps) : timestamps[n] >= cutoff_time}
    IN  [n \in 1..Cardinality(valid) |-> n]

\* [i for i, t in enumerate(timestamps) if t >= cutoff_time]
ValidIndices(timestamps, cutoff_time) ==
    SelectSeq([n \in 1..Len(timestamps) |-> n],
              LAMBDA n : timestamps[n] >= cutoff_time)

\* [lst[i] for i in valid_indices]
Rebuild(lst, valid_indices) ==
    [n \in 1..Len(valid_indices) |-> lst[valid_indices[n]]]

\* as Trim, rebuilding the timestamps alone
TrimTimestampsOnly(history, now) ==
    LET valid_indices == ValidIndices(history.timestamps, Cutoff(now))
    IN  [timestamps      |-> Rebuild(history.timestamps, valid_indices),
         download_speeds |-> history.download_speeds,
         upload_speeds   |-> history.upload_speeds]

\* the three rebuilds of one history from one valid_indices
Trim(history, now) ==
    LET valid_indices == ValidIndices(history.timestamps, Cutoff(now))
    IN  [timestamps      |-> Rebuild(history.timestamps, valid_indices),
         download_speeds |-> Rebuild(history.download_speeds, valid_indices),
         upload_speeds   |-> Rebuild(history.upload_speeds, valid_indices)]

\* as AppendPoint, inserting the data point at the front
AppendPointFront(history, t, down, up) ==
    [timestamps      |-> <<t>> \o history.timestamps,
     download_speeds |-> <<down>> \o history.download_speeds,
     upload_speeds   |-> <<up>> \o history.upload_speeds]

\* the three appends of one data point
AppendPoint(history, t, down, up) ==
    [timestamps      |-> Append(history.timestamps, t),
     download_speeds |-> Append(history.download_speeds, down),
     upload_speeds   |-> Append(history.upload_speeds, up)]

\* as EnsureKey, assigning a fresh dictionary that holds the new key alone
EnsureKeyReplacing(dth, device_name) ==
    IF device_name \in DOMAIN dth
    THEN dth
    ELSE [k \in {device_name} |-> EmptyHistory]

\* as EnsureKey, dropping the keys of devices that are not in this snapshot
EnsureKeyPruning(dth, device_name) ==
    [k \in (DOMAIN dth \cap {df[n].name : n \in 1..Len(df)}) \cup {device_name}
        |-> IF k \in DOMAIN dth THEN dth[k] ELSE EmptyHistory]

\* if device_name not in device_traffic_history: create its empty history
EnsureKey(dth, device_name) ==
    IF device_name \in DOMAIN dth
    THEN dth
    ELSE [k \in DOMAIN dth \cup {device_name} |->
            IF k = device_name THEN EmptyHistory ELSE dth[k]]

SeriesOf(column) ==
    IF column = "current_download_speed" THEN "download_speeds"
    ELSE "upload_speeds"

RECURSIVE LatestSum(_, _)
LatestSum(keys, column) ==
    IF keys = {} THEN 0
    ELSE LET k == CHOOSE x \in keys : TRUE
             series == device_traffic_history[k][SeriesOf(column)]
         IN  (IF series = <<>> THEN 0 ELSE series[Len(series)])
               + LatestSum(keys \ {k}, column)

\* as ColumnSum, adding the latest value of every device the store holds
ColumnSumHeld(rows, column) ==
    LatestSum(DOMAIN device_traffic_history, column)

\* df[column].sum()
RECURSIVE ColumnSum(_, _)
ColumnSum(rows, column) ==
    IF rows = <<>> THEN 0
    ELSE rows[1][column] + ColumnSum(Tail(rows), column)

\* as SelectHistory, with nothing to show for a device without a history
SelectHistoryOrEmpty(selected, dth, aggregate) ==
    IF selected = AllDevices THEN aggregate
    ELSE IF selected \in DOMAIN dth THEN dth[selected]
    ELSE EmptyHistory

\* the history the chart reads
SelectHistory(selected, dth, aggregate) ==
    IF selected # AllDevices /\ selected \in DOMAIN dth
    THEN dth[selected]
    ELSE aggregate

\* ----------------------------------------------------------- snapshots
RECURSIVE Ascending(_)
Ascending(S) ==
    IF S = {} THEN <<>>
    ELSE LET m == CHOOSE x \in S : \A y \in S : x <= y
         IN  <<m>> \o Ascending(S \ {m})

Row(n, pair) ==
    [name |-> DeviceList[n],
     current_download_speed |-> pair[1],
     current_upload_speed |-> pair[2]]

RowsOf(S, rates) ==
    LET order == Ascending(S)
    IN  [n \in 1..Len(order) |-> Row(order[n], rates[order[n]])]

\* every snapshot the Sample Source may return: a non-empty selection of the
\* devices, each carrying one rate pair
Snapshots ==
    UNION {{RowsOf(S, rates) :
                rates \in {r \in [S -> UNION {RatePairs(n) : n \in S}] :
                              \A n \in S : r[n] \in RatePairs(n)}} :
              S \in (SUBSET (1..Len(DeviceList))) \ {{}}}

RowNames(rows) == {rows[n].name : n \in 1..Len(rows)}

\* ------------------------------------------------------ st.session_state
\* as SessionDefault, assigning the fresh value on every run
SessionReset(key, current, fresh) == fresh

\* if key not in st.session_state: st.session_state[key] = fresh
SessionDefault(key, current, fresh) ==
    IF key \in session_keys THEN current ELSE fresh

NoDevices == [k \in {} |-> EmptyHistory]

\* ------------------------------------------------------- the generator
\* NetworkTrafficGenerator.__init__: the printer starts offline, every other
\* device online, all byte counters at 0
InitialDevices ==
    [name \in {DeviceList[n] : n \in 1..Len(DeviceList)} |->
        [status |-> IF name = "Home Printer" THEN "OFFLINE" ELSE "ONLINE",
         upload_bytes |-> 0,
         download_bytes |-> 0]]

\* ------------------------------------------------------ the CVE fetcher
\* Python's None, and a list of CVE entries
None == [some |-> FALSE, value |-> <<>>]
List(entries) == [some |-> TRUE, value |-> entries]

\* the widgets before the user has touched them: the checkbox unchecked,
\* the slider at 1
WidgetDefaults ==
    /\ auto_refresh = FALSE
    /\ refresh_rate = 1
    /\ slept = 0

NoAlerts ==
    /\ security_alerts = <<>>
    /\ alert_seq = 0

\* the state the constructors of the generator and of the fetcher leave
Constructed ==
    /\ WidgetDefaults
    /\ NoAlerts
    /\ session_keys = {}
    /\ polls = 0
    /\ devices = InitialDevices
    /\ cached_cves = None
    /\ last_fetch_time = NoTime
    /\ cve_response = "none"
    /\ cve_return = None

\* ---------------------------------------------------------------- Init
ScriptIdle ==
    /\ selected_device = AllDevices
    /\ df = <<>>
    /\ current_time = NoTime
    /\ i = 0
    /\ history_data = EmptyHistory

Init ==
    /\ device_traffic_history = NoDevices
    /\ traffic_history = EmptyHistory
    /\ clock \in ClockValues
    /\ pc = "sidebar"
    /\ ticks = 1
    /\ ScriptIdle
    /\ tick_interval = 0
    /\ Constructed

\* -------------------------------------------------------------- actions
\* STEP 3 and STEP 4: the guarded creation of traffic_history, then the
\* dropdown, which offers "All Devices" and the names of temp_devices
Sidebar ==
    /\ pc = "sidebar"
    /\ traffic_history' =
          SessionDefault("traffic_history", traffic_history, EmptyHistory)
    /\ session_keys' = session_keys \cup {"traffic_history"}
    /\ polls' = polls + 1
    /\ \E temp_devices \in Snapshots :
          selected_device' \in {AllDevices} \cup RowNames(temp_devices)
    /\ pc' = "fetch"
    /\ UNCHANGED <<device_traffic_history, clock, ticks, df, current_time, i,
                   history_data, tick_interval, devices, fetcher,
                   controls, alerts>>

\* STEP 5 and the head of 6E: the snapshot and the timestamp of this run
Fetch ==
    /\ pc = "fetch"
    /\ polls' = polls + 1
    /\ df' \in Snapshots
    /\ device_traffic_history' =
          SessionDefault("device_traffic_history", device_traffic_history,
                         NoDevices)
    /\ session_keys' = session_keys \cup {"device_traffic_history"}
    /\ current_time' = clock
    /\ i' = 1
    /\ pc' = "loop"
    /\ UNCHANGED <<traffic_history, clock, ticks, selected_device,
                   history_data, tick_interval, devices, fetcher,
                   controls, alerts>>

\* as RecordDevice, moving on to the next row without the garbage collection
RecordDeviceUntrimmed ==
    /\ pc = "loop"
    /\ i <= Len(df)
    /\ LET device == df[i]
           dth == EnsureKey(device_traffic_history, device.name)
       IN  device_traffic_history' =
             [dth EXCEPT ![device.name] =
                AppendPoint(@, current_time, device.current_download_speed,
                            device.current_upload_speed)]
    /\ i' = i + 1
    /\ pc' = "loop"
    /\ UNCHANGED <<traffic_history, clock, ticks, selected_device, df,
                   current_time, history_data, aside>>

\* 6E, body of the loop up to the appends
RecordDevice ==
    /\ pc = "loop"
    /\ i <= Len(df)
    /\ LET device == df[i]
           dth == EnsureKey(device_traffic_history, device.name)
       IN  device_traffic_history' =
             [dth EXCEPT ![device.name] =
                AppendPoint(@, current_time, device.current_download_speed,
                            device.current_upload_speed)]
    /\ pc' = "trim"
    /\ UNCHANGED <<traffic_history, clock, ticks, selected_device, df,
                   current_time, i, history_data, aside>>

\* as EvictDevice, the garbage collection going over every held device
EvictDeviceAllKeys ==
    /\ pc = "trim"
    /\ device_traffic_history' =
          [k \in DOMAIN device_traffic_history |->
              Trim(device_traffic_history[k], current_time)]
    /\ i' = i + 1
    /\ pc' = "loop"
    /\ UNCHANGED <<traffic_history, clock, ticks, selected_device, df,
                   current_time, history_data, aside>>

\* 6E, garbage collection of the device just recorded
EvictDevice ==
    /\ pc = "trim"
    /\ device_traffic_history' =
          [device_traffic_history EXCEPT ![df[i].name] = Trim(@, current_time)]
    /\ i' = i + 1
    /\ pc' = "loop"
    /\ UNCHANGED <<traffic_history, clock, ticks, selected_device, df,
                   current_time, history_data, aside>>

\* as RecordAggregate, the run leaving the tick body before the aggregate
\* data point is appended
RecordAggregateSkipped ==
    /\ pc = "loop"
    /\ i > Len(df)
    /\ traffic_history' =
          SessionDefault("traffic_history", traffic_history, EmptyHistory)
    /\ session_keys' = session_keys \cup {"traffic_history"}
    /\ pc' = "aggtrim"
    /\ UNCHANGED <<device_traffic_history, clock, ticks, selected_device, df,
                   current_time, i, history_data, polls, tick_interval,
                   devices, fetcher,
                   controls, alerts>>

\* 6F, the aggregate data point
RecordAggregate ==
    /\ pc = "loop"
    /\ i > Len(df)
    /\ traffic_history' =
          AppendPoint(SessionDefault("traffic_history", traffic_history,
                                     EmptyHistory),
                      current_time,
                      ColumnSum(df, "current_download_speed"),
                      ColumnSum(df, "current_upload_speed"))
    /\ session_keys' = session_keys \cup {"traffic_history"}
    /\ pc' = "aggtrim"
    /\ UNCHANGED <<device_traffic_history, clock, ticks, selected_device, df,
                   current_time, i, history_data, polls, tick_interval,
                   devices, fetcher,
                   controls, alerts>>

\* 6F, garbage collection of the aggregate history
EvictAggregate ==
    /\ pc = "aggtrim"
    /\ traffic_history' = Trim(traffic_history, current_time)
    /\ pc' = "render"
    /\ UNCHANGED <<device_traffic_history, clock, ticks, selected_device, df,
                   current_time, i, history_data, aside>>

\* STEP 7.5: the chart picks its history
Render ==
    /\ pc = "render"
    /\ history_data' =
          SelectHistory(selected_device, device_traffic_history, traffic_history)
    /\ pc' = "done"
    /\ UNCHANGED <<session, clock, ticks, selected_device, df, current_time, i,
                   aside>>

\* the script ends; the next run starts after some time has passed
Rerun ==
    /\ pc = "done"
    /\ ticks < MaxTicks
    /\ ticks' = ticks + 1
    /\ clock' \in ClockValues
    /\ pc' = "sidebar"
    /\ selected_device' = AllDevices
    /\ df' = <<>>
    /\ current_time' = NoTime
    /\ i' = 0
    /\ history_data' = EmptyHistory
    /\ UNCHANGED <<session, aside>>

Next ==
    \/ Sidebar
    \/ Fetch
    \/ RecordDevice
    \/ EvictDevice
    \/ RecordAggregate
    \/ EvictAggregate
    \/ Render
    \/ Rerun

Spec == Init /\ [][Next]_vars

\* ------------------------------------------------------------ scenario
\* One device reporting one steady rate pair, a run every minute from a start
\* minute t0.
ScenarioInit ==
    /\ device_traffic_history = NoDevices
    /\ traffic_history = EmptyHistory
    /\ clock \in 0..MaxT0
    /\ pc = "sidebar"
    /\ ticks = 1
    /\ ScriptIdle
    /\ tick_interval = 1
    /\ Constructed

SteadyRow(row) ==
    /\ row.name \in DOMAIN device_traffic_history
    /\ LET history == device_traffic_history[row.name]
           n == Len(history.timestamps)
       IN  /\ n > 0
           /\ history.download_speeds[n] = row.current_download_speed
           /\ history.upload_speeds[n] = row.current_upload_speed

ScenarioFetch ==
    /\ pc = "fetch"
    /\ polls' = polls + 1
    /\ df' \in {rows \in Snapshots :
                  /\ Len(rows) = 1
                  /\ DOMAIN device_traffic_history # {} => SteadyRow(rows[1])}
    /\ device_traffic_history' =
          SessionDefault("device_traffic_history", device_traffic_history,
                         NoDevices)
    /\ session_keys' = session_keys \cup {"device_traffic_history"}
    /\ current_time' = clock
    /\ i' = 1
    /\ pc' = "loop"
    /\ UNCHANGED <<traffic_history, clock, ticks, selected_device,
                   history_data, tick_interval, devices, fetcher,
                   controls, alerts>>

ScenarioRerun ==
    /\ pc = "done"
    /\ ticks < MaxScenarioTicks
    /\ ticks' = ticks + 1
    /\ clock' = clock + tick_interval
    /\ pc' = "sidebar"
    /\ selected_device' = AllDevices
    /\ df' = <<>>
    /\ current_time' = NoTime
    /\ i' = 0
    /\ history_data' = EmptyHistory
    /\ UNCHANGED <<session, aside>>

ScenarioNext ==
    \/ Sidebar
    \/ ScenarioFetch
    \/ RecordDevice
    \/ EvictDevice
    \/ RecordAggregate
    \/ EvictAggregate
    \/ Render
    \/ ScenarioRerun

SpecScenario == ScenarioInit /\ [][ScenarioNext]_vars

\* ------------------------------------------------------ regular sessions
\* The tick intervals, in minutes, of the regular sessions.
Intervals == {1, 2, 7}

\* A session like the scenario, with any of the tick intervals.
IntervalInit ==
    /\ device_traffic_history = NoDevices
    /\ traffic_history = EmptyHistory
    /\ clock \in 0..MaxT0
    /\ pc = "sidebar"
    /\ ticks = 1
    /\ ScriptIdle
    /\ tick_interval \in Intervals
    /\ Constructed

SpecInterval == IntervalInit /\ [][ScenarioNext]_vars

\* ------------------------------------------------- a clock that never steps back
MonotoneRerun ==
    /\ pc = "done"
    /\ ticks < MaxTicks
    /\ ticks' = ticks + 1
    /\ clock' \in {c \in ClockValues : c >= clock}
    /\ pc' = "sidebar"
    /\ selected_device' = AllDevices
    /\ df' = <<>>
    /\ current_time' = NoTime
    /\ i' = 0
    /\ history_data' = EmptyHistory
    /\ UNCHANGED <<session, aside>>

MonotoneNext ==
    \/ Sidebar
    \/ Fetch
    \/ RecordDevice
    \/ EvictDevice
    \/ RecordAggregate
    \/ EvictAggregate
    \/ Render
    \/ MonotoneRerun

SpecMonotone == Init /\ [][MonotoneNext]_vars

\* ------------------------------------------------- vocabulary of the claims
SameLength(history) ==
    /\ Len(history.timestamps) = Len(history.download_speeds)
    /\ Len(history.timestamps) = Len(history.upload_speeds)

WithinHorizon(history, now) ==
    \A n \in 1..Len(history.timestamps) : history.timestamps[n] >= now - 30

\* the samples of a history, one <<timestamp, download, upload>> per index
Samples(history) ==
    [n \in 1..Len(history.timestamps) |->
        <<history.timestamps[n], history.download_speeds[n],
          history.upload_speeds[n]>>]

Occurrences(x, seq) == Cardinality({n \in 1..Len(seq) : seq[n] = x})

SampleSet(history) == {Samples(history)[n] : n \in 1..Len(history.timestamps)}

RECURSIVE IsSubsequence(_, _)
IsSubsequence(a, b) ==
    IF a = <<>> THEN TRUE
    ELSE IF b = <<>> THEN FALSE
    ELSE IF a[1] = b[1] THEN IsSubsequence(Tail(a), Tail(b))
    ELSE IsSubsequence(a, Tail(b))

\* the device whose history the loop has just trimmed
JustEvicted == pc = "loop" /\ i > 1
EvictedKey == df[i - 1].name

\* the steps that are an evict of one key
DeviceEvictStep == pc = "trim" /\ pc' = "loop"
AggregateEvictStep == pc = "aggtrim" /\ pc' = "render"

\* the aggregate history gets one sample per run, so fewer samples than runs
\* means an evict has removed some
AggregateLostSamples == Len(traffic_history.timestamps) < ticks

\* ----------------------------------------------------------------- C1
\* C1: in every state, each per-device history and the aggregate history
\* have timestamps, download_speeds and upload_speeds of one length.
C1_ParallelLength ==
    /\ \A k \in DOMAIN device_traffic_history :
          SameLength(device_traffic_history[k])
    /\ SameLength(traffic_history)

C1_Witness ==
    /\ pc = "done"
    /\ AggregateLostSamples
    /\ traffic_history.timestamps # <<>>
    /\ \E k \in DOMAIN device_traffic_history :
          device_traffic_history[k].timestamps # <<>>

\* ----------------------------------------------------------------- C2
\* C2: right after the evict of a key with this run's now, every timestamp
\* left under that key is at least now - 30 minutes.
C2_Window ==
    /\ JustEvicted =>
          WithinHorizon(device_traffic_history[EvictedKey], current_time)
    /\ pc = "render" => WithinHorizon(traffic_history, current_time)

C2_Witness ==
    /\ pc = "render"
    /\ AggregateLostSamples
    /\ Len(traffic_history.timestamps) >= 2

C4_ThirtySamples ==
    (JustEvicted /\ ticks = 45) =>
        LET t0 == clock - 44
        IN  device_traffic_history[EvictedKey].timestamps =
                [n \in 1..30 |-> t0 + 14 + n]

\* C4 amended: after the 45th record and evict of the scenario the series
\* holds exactly the 31 timestamps t0+14 .. t0+44; the sample taken exactly
\* 30 minutes before now is kept.
C4_ThirtyOneSamples ==
    (JustEvicted /\ ticks = 45) =>
        LET t0 == clock - 44
        IN  /\ t0 \in 0..MaxT0
            /\ device_traffic_history[EvictedKey].timestamps =
                  [n \in 1..31 |-> t0 + 13 + n]

C4_Witness ==
    /\ JustEvicted
    /\ ticks = 45
    /\ current_time = clock
    /\ device_traffic_history[EvictedKey].timestamps[1] = current_time - 30

\* ----------------------------------------------------------------- C5
\* C5: an evict keeps every sample whose timestamp is at least now - 30
\* minutes, as often as it occurred before, and keeps no other sample.
ExactlyStaleRemoved(before, after, now) ==
    \A x \in SampleSet(before) \cup SampleSet(after) :
        Occurrences(x, Samples(after)) =
            IF x[1] >= now - 30 THEN Occurrences(x, Samples(before)) ELSE 0

C5_ExactEviction ==
    [][/\ DeviceEvictStep =>
            ExactlyStaleRemoved(device_traffic_history[df[i].name],
                                device_traffic_history'[df[i].name],
                                current_time)
       /\ AggregateEvictStep =>
            ExactlyStaleRemoved(traffic_history, traffic_history',
                                current_time)]_vars

C5_Witness ==
    /\ pc = "render"
    /\ AggregateLostSamples
    /\ \E n \in 1..Len(traffic_history.timestamps) :
          traffic_history.timestamps[n] = current_time - 30

\* ----------------------------------------------------------------- C6
\* C6: the aggregate sample of a tick is this tick's timestamp with the sums
\* of the download and the upload rates over the rows of this tick's
\* snapshot, and over no other device.
RECURSIVE SumOver(_, _)
SumOver(indices, column) ==
    IF indices = {} THEN 0
    ELSE LET n == CHOOSE x \in indices : TRUE
         IN  df[n][column] + SumOver(indices \ {n}, column)

C6_AggregateIsSnapshotSum ==
    pc \in {"aggtrim", "render", "done"} =>
        LET samples == Samples(traffic_history)
        IN  /\ samples # <<>>
            /\ samples[Len(samples)] =
                  <<current_time,
                    SumOver(1..Len(df), "current_download_speed"),
                    SumOver(1..Len(df), "current_upload_speed")>>

C6_Witness ==
    /\ pc = "aggtrim"
    /\ \E k \in DOMAIN device_traffic_history :
          /\ k \notin RowNames(df)
          /\ device_traffic_history[k].timestamps # <<>>

\* ----------------------------------------------------------------- C7
\* C7: no step removes a key; a step changes nothing under a key that is not
\* in the snapshot; and a sample a step removes from a per-device history
\* is older than now - 30 minutes.
C7_AbsentEntityKeepsSamples ==
    [][device_traffic_history' # device_traffic_history =>
        \A k \in DOMAIN device_traffic_history :
          /\ k \in DOMAIN device_traffic_history'
          /\ k \notin RowNames(df) =>
                device_traffic_history'[k] = device_traffic_history[k]
          /\ device_traffic_history'[k] # device_traffic_history[k] =>
                \A x \in SampleSet(device_traffic_history[k]) :
                    Occurrences(x, Samples(device_traffic_history'[k])) <
                        Occurrences(x, Samples(device_traffic_history[k]))
                    => x[1] < current_time - 30]_vars

C7_Witness ==
    /\ pc = "done"
    /\ ticks >= 2
    /\ \E k \in DOMAIN device_traffic_history :
          /\ k \notin RowNames(df)
          /\ device_traffic_history[k].timestamps # <<>>
          /\ WithinHorizon(device_traffic_history[k], current_time)

\* ----------------------------------------------------------------- C8
\* C8: evicting once more with the same now leaves the three sequences as
\* the first evict left them.
C8_EvictIdempotent ==
    /\ JustEvicted =>
          Trim(device_traffic_history[EvictedKey], current_time) =
              device_traffic_history[EvictedKey]
    /\ pc = "render" =>
          Trim(traffic_history, current_time) = traffic_history

C8_Witness ==
    /\ pc = "render"
    /\ ticks = 3
    /\ Len(traffic_history.timestamps) = 1

\* ----------------------------------------------------------------- C9
\* C9: the samples an evict leaves are, in their order, a subsequence of the
\* samples before it.
C9_OrderPreserved ==
    [][/\ DeviceEvictStep =>
            IsSubsequence(Samples(device_traffic_history'[df[i].name]),
                          Samples(device_traffic_history[df[i].name]))
       /\ AggregateEvictStep =>
            IsSubsequence(Samples(traffic_history'),
                          Samples(traffic_history))]_vars

C9_Witness ==
    /\ pc = "render"
    /\ AggregateLostSamples
    /\ Len(traffic_history.timestamps) >= 2
    /\ traffic_history.timestamps[1] < traffic_history.timestamps[2]

DeviceRecordStep == pc = "loop" /\ pc' = "trim"

C11_RecordAppendsOne ==
    [][DeviceRecordStep =>
        LET device == df[i]
            before == IF device.name \in DOMAIN device_traffic_history
                      THEN device_traffic_history[device.name]
                      ELSE EmptyHistory
            after  == device_traffic_history'[device.name]
        IN  /\ SameLength(after)
            /\ Len(after.timestamps) = Len(before.timestamps) + 1
            /\ Samples(after) =
                  Samples(before) \o
                     <<<<current_time, device.current_download_speed,
                         device.current_upload_speed>>>>]_vars

C11_Witness ==
    /\ pc = "trim"
    /\ i = 2
    /\ Len(device_traffic_history[df[2].name].timestamps) = 1
    /\ Len(device_traffic_history[df[1].name].timestamps) >= 2
    /\ device_traffic_history[df[1].name].timestamps[1] # current_time

\* ---------------------------------------------------------------- C12
\* C12: no step removes a key from device_traffic_history.
C12_KeysOnlyGrow ==
    [][DOMAIN device_traffic_history \subseteq
           DOMAIN device_traffic_history']_vars

C12_Witness ==
    /\ pc = "done"
    /\ ticks >= 3
    /\ \E k \in DOMAIN device_traffic_history :
          /\ k \notin RowNames(df)
          /\ ~WithinHorizon(device_traffic_history[k], current_time)

\* ---------------------------------------------------------------- C13
\* C13: when the clock never steps back, the timestamps of every stored
\* series are in non-decreasing order in every state.
NonDecreasing(seq) == \A n \in 1..(Len(seq) - 1) : seq[n] <= seq[n + 1]

C13_TimestampsOrdered ==
    /\ \A k \in DOMAIN device_traffic_history :
          NonDecreasing(device_traffic_history[k].timestamps)
    /\ NonDecreasing(traffic_history.timestamps)

C13_Witness ==
    /\ pc = "done"
    /\ Len(traffic_history.timestamps) >= 2
    /\ traffic_history.timestamps[1] < traffic_history.timestamps[2]
    /\ \E k \in DOMAIN device_traffic_history :
          /\ Len(device_traffic_history[k].timestamps) >= 2
          /\ device_traffic_history[k].timestamps[1] <
                device_traffic_history[k].timestamps[2]

\* ---------------------------------------------------------------- C14
AllSeries ==
    {device_traffic_history[k] : k \in DOMAIN device_traffic_history}
        \cup {traffic_history}

\* C14 as stated: with runs exactly tick_interval apart, after each run every
\* series holds at most horizon / tick_interval samples.
C14_LengthBound ==
    pc = "done" =>
        \A history \in AllSeries :
            Len(history.timestamps) <= Horizon \div tick_interval

\* C14 amended: with runs exactly tick_interval apart, after each run every
\* series holds at most horizon / tick_interval (rounded down) + 1 samples.
C14_LengthBoundPlusOne ==
    pc = "done" =>
        \A history \in AllSeries :
            Len(history.timestamps) <= (Horizon \div tick_interval) + 1

C14_Witness ==
    /\ pc = "done"
    /\ tick_interval = 7
    /\ Len(traffic_history.timestamps) = 5
    /\ traffic_history.timestamps[1] > MaxT0

\* ---------------------------------------------------------------- C15
\* C15: when a run of the script has ended, get_devices has been called as
\* often as the script has run: once per tick.
C15_OnePollPerTick == pc = "done" => polls = ticks

\* ---------------------------------------------------------------- C16
\* C16 as stated: no evict happens before the last record of its tick, so
\* an evict never leaves the run where a record is still to come.
C16_NoEvictBeforeLastRecord ==
    [][(DeviceEvictStep \/ AggregateEvictStep) => pc' # "loop"]_vars

OtherKeysUnchanged(name) ==
    \A k \in DOMAIN device_traffic_history \ {name} :
        /\ k \in DOMAIN device_traffic_history'
        /\ device_traffic_history'[k] = device_traffic_history[k]

\* C16 amended: a run polls, then takes the rows of the snapshot in turn,
\* recording a row's sample and directly after it evicting that row's key
\* and no other, then records the aggregate sample, then evicts the
\* aggregate history, then presents.
C16_RunOrder ==
    [][/\ pc = "sidebar" => pc' = "fetch"
       /\ pc = "fetch" => pc' = "loop" /\ i' = 1
       /\ (pc = "loop" /\ i <= Len(df)) =>
             /\ pc' = "trim"
             /\ i' = i
             /\ OtherKeysUnchanged(df[i].name)
             /\ traffic_history' = traffic_history
       /\ pc = "trim" =>
             /\ pc' = "loop"
             /\ i' = i + 1
             /\ OtherKeysUnchanged(df[i].name)
             /\ WithinHorizon(device_traffic_history'[df[i].name],
                              current_time)
             /\ traffic_history' = traffic_history
       /\ (pc = "loop" /\ i > Len(df)) =>
             /\ pc' = "aggtrim"
             /\ device_traffic_history' = device_traffic_history
             /\ Len(traffic_history'.timestamps) =
                   Len(traffic_history.timestamps) + 1
       /\ pc = "aggtrim" =>
             /\ pc' = "render"
             /\ device_traffic_history' = device_traffic_history
             /\ WithinHorizon(traffic_history', current_time)
       /\ pc = "render" => pc' = "done" /\ UNCHANGED session
       /\ pc = "done" => pc' = "sidebar" /\ UNCHANGED session]_vars

C16_Witness ==
    /\ pc = "trim"
    /\ i = 2
    /\ ticks >= 2
    /\ WithinHorizon(device_traffic_history[df[1].name], current_time)
    /\ ~WithinHorizon(device_traffic_history[df[2].name], current_time)

\* ---------------------------------------------------------------- C17
BetweenRecords == pc \in {"done", "sidebar", "fetch"}

\* C17: once a history is held in the session, the start of a run (the
\* rerun and the initialisation guards it passes) leaves it as the last run
\* left it, and a key of the session is never dropped.
C17_CreatedOnce ==
    [][/\ session_keys \subseteq session_keys'
       /\ (BetweenRecords /\ "traffic_history" \in session_keys) =>
             traffic_history' = traffic_history
       /\ (BetweenRecords /\ "device_traffic_history" \in session_keys) =>
             device_traffic_history' = device_traffic_history]_vars

C17_Witness ==
    /\ pc = "loop"
    /\ i = 1
    /\ ticks >= 2
    /\ session_keys = {"traffic_history", "device_traffic_history"}
    /\ DOMAIN device_traffic_history # {}
    /\ Len(traffic_history.timestamps) >= 1

\* ---------------------------------------------------------------- C18
RecordedNow(h) ==
    /\ Len(h.timestamps) >= 1
    /\ h.timestamps[Len(h.timestamps)] = current_time

TickComplete ==
    /\ \A n \in 1..Len(df) :
          /\ df[n].name \in DOMAIN device_traffic_history
          /\ RecordedNow(device_traffic_history[df[n].name])
          /\ WithinHorizon(device_traffic_history[df[n].name], current_time)
    /\ RecordedNow(traffic_history)
    /\ WithinHorizon(traffic_history, current_time)

MaxResults == 3

\* One entry of data['vulnerabilities']: its id, and whether the first
\* metric of its CVSS version carries 'cvssData' (the subscript raises
\* KeyError when it does not).
CveIds == {"CVE-A", "CVE-B"}
VulnItems == [id : CveIds, cvssData : BOOLEAN]

RECURSIVE SeqsUpTo(_, _)
SeqsUpTo(S, n) ==
    IF n = 0 THEN {<<>>}
    ELSE LET shorter == SeqsUpTo(S, n - 1)
         IN  shorter \cup
             {Append(q, x) : q \in {r \in shorter : Len(r) = n - 1}, x \in S}

\* what requests.get / raise_for_status / response.json() can hand back
Responses ==
    {[kind |-> "RequestException", vulnerabilities |-> <<>>],
     [kind |-> "no_vulnerabilities", vulnerabilities |-> <<>>]}
    \cup {[kind |-> "json", vulnerabilities |-> v] :
             v \in SeqsUpTo(VulnItems, MaxPayload)}

Min(a, b) == IF a <= b THEN a ELSE b

\* The entries the loop works on: every entry is appended, so the loop
\* breaks after max_results of them (and the slice allows max_results * 3).
Processed(vulnerabilities, max_results) ==
    SubSeq(vulnerabilities, 1,
           Min(Min(Len(vulnerabilities), max_results * 3), max_results))

\* Python's truth value of cached_cves: None and the empty list are false
Truthy(x) == x.some /\ Len(x.value) > 0

\* both except blocks
CachedOrNone == IF Truthy(cached_cves) THEN cached_cves ELSE None

\* as GetUbiquitiCves, the cache written entry by entry while the loop runs
GetUbiquitiCvesEagerCache(max_results) ==
    \E response \in Responses, now \in ClockValues :
        /\ clock' = now
        /\ IF response.kind = "RequestException"
           THEN /\ cve_response' = "RequestException"
                /\ cve_return' = CachedOrNone
                /\ UNCHANGED <<cached_cves, last_fetch_time>>
           ELSE IF response.kind = "no_vulnerabilities"
           THEN /\ cve_response' = "no_vulnerabilities"
                /\ cve_return' = None
                /\ UNCHANGED <<cached_cves, last_fetch_time>>
           ELSE LET items == Processed(response.vulnerabilities, max_results)
                    good == {n \in 1..Len(items) :
                               \A m \in 1..n : items[m].cvssData}
                    cves == [n \in 1..Cardinality(good) |-> items[n].id]
                IN  /\ cached_cves' = List(cves)
                    /\ last_fetch_time' = now
                    /\ IF \E n \in 1..Len(items) : ~items[n].cvssData
                       THEN /\ cve_response' = "Exception"
                            /\ cve_return' =
                                  IF Len(cves) > 0 THEN List(cves) ELSE None
                       ELSE /\ cve_response' = "ok"
                            /\ cve_return' = List(cves)
        /\ UNCHANGED <<session, ticks, pc, selected_device, df, current_time,
                       i, history_data, session_keys, polls, tick_interval,
                       devices, controls, alerts>>

GetUbiquitiCves(max_results) ==
    \E response \in Responses, now \in ClockValues :
        /\ clock' = now
        /\ IF response.kind = "RequestException"
           THEN /\ cve_response' = "RequestException"
                /\ cve_return' = CachedOrNone
                /\ UNCHANGED <<cached_cves, last_fetch_time>>
           ELSE IF response.kind = "no_vulnerabilities"
           THEN /\ cve_response' = "no_vulnerabilities"
                /\ cve_return' = None
                /\ UNCHANGED <<cached_cves, last_fetch_time>>
           ELSE LET items == Processed(response.vulnerabilities, max_results)
                IN  IF \E n \in 1..Len(items) : ~items[n].cvssData
                    THEN /\ cve_response' = "Exception"
                         /\ cve_return' = CachedOrNone
                         /\ UNCHANGED <<cached_cves, last_fetch_time>>
                    ELSE LET cves == [n \in 1..Len(items) |-> items[n].id]
                         IN  /\ cve_response' = "ok"
                             /\ cached_cves' = List(cves)
                             /\ last_fetch_time' = now
                             /\ cve_return' = List(cves)
        /\ UNCHANGED <<session, ticks, pc, selected_device, df, current_time,
                       i, history_data, session_keys, polls, tick_interval,
                       devices, controls, alerts>>

CveNext == GetUbiquitiCves(MaxResults)

SpecCve == Init /\ [][CveNext]_vars

\* ---------------------------------------------------------------- C19
Failed == cve_response \in {"RequestException", "Exception"}

\* C19: after a call that failed, the caller holds the list the last
\* successful fetch cached if a fetch has succeeded, and None otherwise.
C19_CachedOnFailure ==
    Failed => cve_return = IF last_fetch_time # NoTime THEN cached_cves
                           ELSE None

\* --------------------------------------- NetworkTrafficGenerator as written
DeviceType(name) == IF name = "Home Printer" THEN "Printer" ELSE "Mobile"

\* random.randint(lo, hi) for upload and download, at the ends of its range
Added(type) ==
    IF type = "Router" THEN {<<1000, 5000>>, <<5000000, 10000000>>}
    ELSE IF type = "Printer" THEN {<<0, 0>>, <<1000, 1000>>}
    ELSE {<<100, 500>>, <<1000000, 5000000>>}

Toggled(status) == IF status = "ONLINE" THEN "OFFLINE" ELSE "ONLINE"

\* as SimulateTraffic, the traffic added before the status is looked at
SimulateTrafficAnyStatus(devs) ==
    {[name \in DOMAIN devs |->
        [status |-> IF name \in {"Home Printer", "Guest Android"}
                       /\ toggle[name]
                    THEN Toggled(devs[name].status)
                    ELSE devs[name].status,
         upload_bytes |-> devs[name].upload_bytes + added[name][1],
         download_bytes |-> devs[name].download_bytes + added[name][2]]] :
       toggle \in [DOMAIN devs -> BOOLEAN],
       added \in {a \in [DOMAIN devs -> UNION {Added(DeviceType(n)) :
                                                 n \in DOMAIN devs}] :
                     \A n \in DOMAIN devs : a[n] \in Added(DeviceType(n))}}

\* the devices one call of _simulate_traffic can leave
SimulateTraffic(devs) ==
    {[name \in DOMAIN devs |->
        LET status == IF name \in {"Home Printer", "Guest Android"}
                         /\ toggle[name]
                      THEN Toggled(devs[name].status)
                      ELSE devs[name].status
        IN  IF status = "ONLINE"
            THEN [status |-> status,
                  upload_bytes |-> devs[name].upload_bytes + added[name][1],
                  download_bytes |->
                      devs[name].download_bytes + added[name][2]]
            ELSE [devs[name] EXCEPT !.status = status]] :
       toggle \in [DOMAIN devs -> BOOLEAN],
       added \in {a \in [DOMAIN devs -> UNION {Added(DeviceType(n)) :
                                                 n \in DOMAIN devs}] :
                     \A n \in DOMAIN devs : a[n] \in Added(DeviceType(n))}}

\* pd.DataFrame(devices): one row per device, one column per key of the
\* device dictionaries (ip, mac and last_seen are left out)
DataFrame(devs) ==
    [n \in 1..Len(DeviceList) |->
        [name |-> DeviceList[n],
         type |-> DeviceType(DeviceList[n]),
         status |-> devs[DeviceList[n]].status,
         upload_bytes |-> devs[DeviceList[n]].upload_bytes,
         download_bytes |-> devs[DeviceList[n]].download_bytes]]

HasColumn(frame, column) ==
    \A n \in 1..Len(frame) : column \in DOMAIN frame[n]

\* STEP 3 and STEP 4 with the generator of data_generator.py
GenSidebar ==
    /\ pc = "sidebar"
    /\ traffic_history' =
          SessionDefault("traffic_history", traffic_history, EmptyHistory)
    /\ session_keys' = session_keys \cup {"traffic_history"}
    /\ polls' = polls + 1
    /\ devices' \in SimulateTraffic(devices)
    /\ selected_device' \in {AllDevices} \cup DOMAIN devices
    /\ pc' = "fetch"
    /\ UNCHANGED <<device_traffic_history, clock, ticks, df, current_time, i,
                   history_data, tick_interval, fetcher,
                   controls, alerts>>

\* STEP 6A: get_devices() and the data frame made of it
GenFetch ==
    /\ pc = "fetch"
    /\ polls' = polls + 1
    /\ devices' \in SimulateTraffic(devices)
    /\ df' = DataFrame(devices')
    /\ pc' = "metrics"
    /\ UNCHANGED <<session, clock, ticks, selected_device, current_time, i,
                   history_data, session_keys, tick_interval, fetcher,
                   controls, alerts>>

\* STEP 6D: the sums of the two speed columns; a column the frame does not
\* have raises KeyError and ends the run, otherwise the run goes on to 6E
CurrentSpeeds ==
    /\ pc = "metrics"
    /\ IF /\ HasColumn(df, "current_download_speed")
          /\ HasColumn(df, "current_upload_speed")
       THEN /\ device_traffic_history' =
                  SessionDefault("device_traffic_history",
                                 device_traffic_history, NoDevices)
            /\ session_keys' = session_keys \cup {"device_traffic_history"}
            /\ current_time' = clock
            /\ i' = 1
            /\ pc' = "loop"
       ELSE /\ pc' = "KeyError"
            /\ UNCHANGED <<device_traffic_history, session_keys,
                           current_time, i>>
    /\ UNCHANGED <<traffic_history, clock, ticks, selected_device, df,
                   history_data, polls, tick_interval, devices, fetcher,
                   controls, alerts>>

\* the next run of the script, started by the user after the exception
GenRerun ==
    /\ pc = "KeyError"
    /\ ticks < MaxTicks
    /\ ticks' = ticks + 1
    /\ clock' \in ClockValues
    /\ pc' = "sidebar"
    /\ selected_device' = AllDevices
    /\ df' = <<>>
    /\ current_time' = NoTime
    /\ i' = 0
    /\ history_data' = EmptyHistory
    /\ UNCHANGED <<session, aside>>

GenNext ==
    \/ GenSidebar
    \/ GenFetch
    \/ CurrentSpeeds
    \/ GenRerun

SpecGenerator == Init /\ [][GenNext]_vars

\* ---------------------------------------------------------------- C20
\* C20: every row of the snapshot a run has polled carries
\* current_download_speed and current_upload_speed, and no run ends on a
\* missing value.
C20_SnapshotCarriesRates ==
    /\ HasColumn(df, "current_download_speed")
    /\ HasColumn(df, "current_upload_speed")
    /\ pc # "KeyError"

\* ------------------------------------------------- Live Updates (STEP 10)
\* as SliderValues, the slider starting at 0
SliderValuesFromZero == 0..10

\* st.sidebar.slider("Refresh Rate (seconds)", 1, 10, 1)
SliderValues == 1..10

\* STEP 3 and STEP 4 with the two widgets read: whatever the user has set
\* them to by now
RefreshSidebar ==
    /\ pc = "sidebar"
    /\ traffic_history' =
          SessionDefault("traffic_history", traffic_history, EmptyHistory)
    /\ session_keys' = session_keys \cup {"traffic_history"}
    /\ auto_refresh' \in BOOLEAN
    /\ refresh_rate' \in SliderValues
    /\ polls' = polls + 1
    /\ \E temp_devices \in Snapshots :
          selected_device' \in {AllDevices} \cup RowNames(temp_devices)
    /\ pc' = "fetch"
    /\ UNCHANGED <<device_traffic_history, clock, ticks, df, current_time, i,
                   history_data, tick_interval, devices, fetcher, slept,
                   alerts>>

\* a new run of the script: its variables start over, the session stays
NewRun ==
    /\ ticks' = ticks + 1
    /\ clock' \in {clock, clock + Step}
    /\ pc' = "sidebar"
    /\ selected_device' = AllDevices
    /\ df' = <<>>
    /\ current_time' = NoTime
    /\ i' = 0
    /\ history_data' = EmptyHistory

\* as AutoRefresh, sleeping and rerunning whatever the checkbox says
AutoRefreshAlways ==
    /\ pc = "done"
    /\ ticks < MaxRefreshTicks
    /\ slept' = refresh_rate
    /\ NewRun
    /\ UNCHANGED <<session, session_keys, polls, tick_interval, devices,
                   fetcher, auto_refresh, refresh_rate, alerts>>

\* STEP 10: if auto_refresh: time.sleep(refresh_rate); st.rerun(), and
\* otherwise the end of the script
AutoRefresh ==
    /\ pc = "done"
    /\ IF auto_refresh
       THEN /\ ticks < MaxRefreshTicks
            /\ slept' = refresh_rate
            /\ NewRun
       ELSE /\ pc' = "ended"
            /\ UNCHANGED <<slept, ticks, clock, selected_device, df,
                           current_time, i, history_data>>
    /\ UNCHANGED <<session, session_keys, polls, tick_interval, devices,
                   fetcher, auto_refresh, refresh_rate, alerts>>

\* the user touches a widget of the static dashboard: Streamlit runs the
\* script again
UserRerun ==
    /\ pc = "ended"
    /\ ticks < MaxRefreshTicks
    /\ NewRun
    /\ UNCHANGED <<session, aside>>

ScriptStep ==
    \/ RefreshSidebar
    \/ ScenarioFetch
    \/ RecordDevice
    \/ EvictDevice
    \/ RecordAggregate
    \/ EvictAggregate
    \/ Render
    \/ AutoRefresh

RefreshNext ==
    \/ ScriptStep
    \/ UserRerun

SpecRefresh == Init /\ [][RefreshNext]_vars

\* a started script runs on; the user may leave the dashboard alone
SpecRefreshFair == SpecRefresh /\ WF_vars(ScriptStep)

\* ---------------------------------------------------------------- C21
AutoRerunStep == pc = "done" /\ pc' = "sidebar"

\* C21: whenever a run that ended is followed by the next through Live
\* Updates, the script has slept in between for the value of the slider,
\* which is one of 1..10.
C21_DelayWithinRange ==
    [][AutoRerunStep => (slept' = refresh_rate /\ slept' \in 1..10)]_vars

C21_Witness ==
    /\ pc = "sidebar"
    /\ ticks >= 2
    /\ slept = 10

\* ---------------------------------------------------------------- C22
\* C22: a run that has ended with Live Updates on is followed by the next
\* run (while the model's run counter allows one), and a run that has ended
\* with Live Updates off ends the script and requests no rerun.
C22_SuccessorIffLiveUpdates ==
    /\ \A n \in 1..(MaxRefreshTicks - 1) :
          (pc = "done" /\ auto_refresh /\ ticks = n) ~> (ticks = n + 1)
    /\ [][pc = "done" =>
             IF auto_refresh THEN pc' = "sidebar" /\ ticks' = ticks + 1
             ELSE pc' = "ended" /\ ticks' = ticks]_vars

C22_Witness ==
    /\ pc = "ended"
    /\ ~auto_refresh
    /\ ticks >= 2
    /\ slept >= 1

\* --------------------------------------- security alerts (SUBSECTION 6G)
\* st.session_state.security_alerts[:50]
MaxAlerts == 50

\* how many alerts one call of generate_security_alerts may return
AlertBatches == {0, 1, 2, 26, 51}

\* The n alerts of one call. An alert is the number of its making, so a
\* larger alert is a newer one.
NewAlerts(made, n) == [k \in 1..n |-> made + k]

\* STEP 3, the guarded creation of security_alerts
AlertsInitGuard ==
    /\ pc = "sidebar"
    /\ security_alerts' =
          SessionDefault("security_alerts", security_alerts, <<>>)
    /\ session_keys' = session_keys \cup {"security_alerts"}
    /\ pc' = "alerts"
    /\ UNCHANGED <<session, clock, ticks, selected_device, df, current_time,
                   i, history_data, polls, tick_interval, devices, fetcher,
                   controls, alert_seq>>

\* as SecurityAlerts, the new alerts put behind the held ones
SecurityAlertsAppended ==
    /\ pc = "alerts"
    /\ \E n \in AlertBatches :
          LET new_alerts == NewAlerts(alert_seq, n)
              merged == IF Len(new_alerts) > 0
                        THEN security_alerts \o new_alerts
                        ELSE security_alerts
          IN  /\ security_alerts' =
                    SubSeq(merged, 1, Min(Len(merged), MaxAlerts))
              /\ alert_seq' = alert_seq + n
    /\ pc' = "done"
    /\ UNCHANGED <<session, clock, ticks, selected_device, df, current_time,
                   i, history_data, session_keys, polls, tick_interval,
                   devices, fetcher, controls>>

\* 6G: the new alerts go in front of the held ones, the list is cut at 50
SecurityAlerts ==
    /\ pc = "alerts"
    /\ \E n \in AlertBatches :
          LET new_alerts == NewAlerts(alert_seq, n)
              merged == IF Len(new_alerts) > 0
                        THEN new_alerts \o security_alerts
                        ELSE security_alerts
          IN  /\ security_alerts' =
                    SubSeq(merged, 1, Min(Len(merged), MaxAlerts))
              /\ alert_seq' = alert_seq + n
    /\ pc' = "done"
    /\ UNCHANGED <<session, clock, ticks, selected_device, df, current_time,
                   i, history_data, session_keys, polls, tick_interval,
                   devices, fetcher, controls>>

AlertsNext ==
    \/ AlertsInitGuard
    \/ SecurityAlerts
    \/ Rerun

SpecAlerts == Init /\ [][AlertsNext]_vars

\* ---------------------------------------------------------------- C23
AlertsStep == pc = "alerts" /\ pc' = "done"

\* C23: the list never holds more than 50 alerts, and a run leaves in it
\* the alerts it made, in front, followed by the alerts held before in
\* their order, as many of them from the front as fit into 50: what is
\* dropped is the tail, the oldest alerts.
C23_AlertsCapped ==
    /\ [](Len(security_alerts) <= 50)
    /\ [][AlertsStep =>
            LET made == alert_seq' - alert_seq
                front == IF made <= 50 THEN made ELSE 50
                total == made + Len(security_alerts)
            IN  /\ Len(security_alerts') = IF total <= 50 THEN total ELSE 50
                /\ \A k \in 1..front : security_alerts'[k] > alert_seq
                /\ \A k \in 1..(Len(security_alerts') - front) :
                      security_alerts'[front + k] = security_alerts[k]]_vars

C23_Witness ==
    /\ pc = "done"
    /\ Len(security_alerts) = 50
    /\ alert_seq > 50
    /\ security_alerts[1] > 50
    /\ security_alerts[50] \in 2..26

\* ---------------------------------------------------------------- C24
\* C24: a call of get_ubiquiti_cves that does not end in a successful fetch
\* (request error, payload without 'vulnerabilities', any other exception)
\* leaves cached_cves and last_fetch_time as they were, and a call that
\* changes either of them is a successful fetch whose result is the new
\* cache.
C24_FailureKeepsCache ==
    [][/\ cve_response' # "ok" =>
             UNCHANGED <<cached_cves, last_fetch_time>>
       /\ (cached_cves' # cached_cves \/ last_fetch_time' # last_fetch_time)
             => (cve_response' = "ok" /\ cached_cves' = cve_return')]_vars

C24_Witness ==
    /\ cve_response \in {"RequestException", "no_vulnerabilities",
                         "Exception"}
    /\ cached_cves.some
    /\ Len(cached_cves.value) = MaxResults
    /\ last_fetch_time # NoTime
    /\ clock # last_fetch_time

\* ---------------------------------------------------------------- C25
\* C25: no step makes a device's upload_bytes or download_bytes smaller,
\* and a device that is OFFLINE when a simulation step has dealt with it
\* has both counters as they were before the step.
C25_CountersMonotone ==
    [][\A name \in DOMAIN devices :
          /\ name \in DOMAIN devices'
          /\ devices'[name].upload_bytes >= devices[name].upload_bytes
          /\ devices'[name].download_bytes >= devices[name].download_bytes
          /\ devices'[name].status = "OFFLINE" =>
                /\ devices'[name].upload_bytes = devices[name].upload_bytes
                /\ devices'[name].download_bytes =
                      devices[name].download_bytes]_vars

C25_Witness ==
    /\ pc = "metrics"
    /\ devices["Guest Android"].status = "OFFLINE"
    /\ devices["Guest Android"].download_bytes > 0
    /\ devices["Home Printer"].status = "ONLINE"
    /\ devices["Home Printer"].upload_bytes > 0

\* ---------------------------------------------------------------- C26
LastSample(h) ==
    LET n == Len(h.timestamps)
    IN  <<h.timestamps[n], h.download_speeds[n], h.upload_speeds[n]>>

\* the evict keeps the newest sample of the series, the one this run put in
KeepsRecorded(before, after) ==
    /\ Len(after.timestamps) >= 1
    /\ LastSample(after) = LastSample(before)
    /\ after.timestamps[Len(after.timestamps)] = current_time

GeneratorSnapshotsOnline(devs) ==
    {rows \in Snapshots :
        RowNames(rows) = {name \in DOMAIN devs : devs[name].status = "ONLINE"}}

\* get_devices returns self.devices, every device whatever its status; a
\* row carries the rate pair the tick reads from it
GeneratorSnapshots(devs) ==
    {rows \in Snapshots : RowNames(rows) = DOMAIN devs}

\* STEP 6A with the devices of the generator
FixedFetch ==
    /\ pc = "fetch"
    /\ polls' = polls + 1
    /\ devices' \in SimulateTraffic(devices)
    /\ df' \in GeneratorSnapshots(devices')
    /\ device_traffic_history' =
          SessionDefault("device_traffic_history", device_traffic_history,
                         NoDevices)
    /\ session_keys' = session_keys \cup {"device_traffic_history"}
    /\ current_time' = clock
    /\ i' = 1
    /\ pc' = "loop"
    /\ UNCHANGED <<traffic_history, clock, ticks, selected_device,
                   history_data, tick_interval, fetcher, controls, alerts>>

\* the next run, the wall clock read again
FixedRerun ==
    /\ pc = "done"
    /\ ticks < MaxFixedTicks
    /\ ticks' = ticks + 1
    /\ clock' \in ClockValues
    /\ pc' = "sidebar"
    /\ selected_device' = AllDevices
    /\ df' = <<>>
    /\ current_time' = NoTime
    /\ i' = 0
    /\ history_data' = EmptyHistory
    /\ UNCHANGED <<session, aside>>

FixedNext ==
    \/ GenSidebar
    \/ FixedFetch
    \/ RecordDevice
    \/ EvictDevice
    \/ RecordAggregate
    \/ EvictAggregate
    \/ Render
    \/ FixedRerun

SpecFixed == Init /\ [][FixedNext]_vars

\* ---------------------------------------------------------------- C27
DeviceNames == {DeviceList[n] : n \in 1..Len(DeviceList)}

\* C27: the generator always holds the same devices and every snapshot
\* names all of them, OFFLINE ones too; so where a run has ended every key
\* of the store is in the run's snapshot, was recorded and evicted by the
\* run, and has the timestamps of the aggregate history.
C27_FixedDevices ==
    /\ DOMAIN devices = DeviceNames
    /\ pc \in {"loop", "trim", "aggtrim", "render", "done"} =>
          RowNames(df) = DeviceNames
    /\ pc = "done" =>
          \A k \in DOMAIN device_traffic_history :
             /\ k \in RowNames(df)
             /\ RecordedNow(device_traffic_history[k])
             /\ WithinHorizon(device_traffic_history[k], current_time)
             /\ device_traffic_history[k].timestamps =
                   traffic_history.timestamps

C27_Witness ==
    /\ pc = "done"
    /\ ticks >= 2
    /\ devices["Guest Android"].status = "OFFLINE"
    /\ devices["Home Printer"].status = "OFFLINE"
    /\ DOMAIN device_traffic_history = DeviceNames
    /\ Len(traffic_history.timestamps) = 2

\* ---------------------------------------------------------------- C28
\* what an evict by timestamp value leaves of a series recorded out of order
FilteredByValue(before, after, now) ==
    ~NonDecreasing(before.timestamps) =>
        /\ WithinHorizon(after, now)
        /\ SameLength(after)
        /\ SampleSet(after) =
              {x \in SampleSet(before) : x[1] >= now - 30}

\* C28: an evict of a series whose timestamps were recorded out of order
\* leaves only timestamps of at least now - 30 minutes, wherever in the
\* series the stale ones stood, and leaves the three sequences of equal
\* length with every timestamp still beside its own two speeds.
C28_EvictByValue ==
    [][/\ DeviceEvictStep =>
            FilteredByValue(device_traffic_history[df[i].name],
                            device_traffic_history'[df[i].name],
                            current_time)
       /\ AggregateEvictStep =>
            FilteredByValue(traffic_history, traffic_history',
                            current_time)]_vars

\* the aggregate was recorded at Horizon + Step, then at 0, then at
\* Horizon + Step again (a device seen in the first two runs only still
\* shows the first two), and the evict has taken the 0 out of the middle
C28_Witness ==
    /\ pc = "render"
    /\ ticks = 3
    /\ traffic_history.timestamps = <<Horizon + Step, Horizon + Step>>
    /\ \E k \in DOMAIN device_traffic_history :
          device_traffic_history[k].timestamps = <<Horizon + Step, 0>>

\* ---------------------------------------------------------------- C29
AggregateRecordStep == pc = "loop" /\ pc' = "aggtrim"

\* C29: a record or an evict under a device's key leaves every other
\* device's history and the aggregate history as they were, and the record
\* and the evict of the aggregate leave every device's history as it was.
C29_OtherSeriesUntouched ==
    [][/\ (DeviceRecordStep \/ DeviceEvictStep) =>
            /\ \A k \in DOMAIN device_traffic_history \ {df[i].name} :
                  /\ k \in DOMAIN device_traffic_history'
                  /\ Samples(device_traffic_history'[k]) =
                        Samples(device_traffic_history[k])
            /\ Samples(traffic_history') = Samples(traffic_history)
       /\ (AggregateRecordStep \/ AggregateEvictStep) =>
            /\ DOMAIN device_traffic_history' = DOMAIN device_traffic_history
            /\ \A k \in DOMAIN device_traffic_history :
                  Samples(device_traffic_history'[k]) =
                     Samples(device_traffic_history[k])]_vars

C29_Witness ==
    /\ pc = "loop"
    /\ i = 2
    /\ Len(df) = 1
    /\ Len(traffic_history.timestamps) >= 1
    /\ device_traffic_history[df[1].name].timestamps = <<current_time>>
    /\ \E k \in DOMAIN device_traffic_history \ {df[1].name} :
          ~WithinHorizon(device_traffic_history[k], current_time)

\* ---------------------------------------------------------------- C30
IsSuffix(after, before) ==
    \E k \in 0..Len(before) : after = SubSeq(before, k + 1, Len(before))

\* C30: with timestamps recorded in non-decreasing order, what an evict
\* leaves of a series is the series from some position on to its end.
C30_EvictTrimsFront ==
    [][/\ DeviceEvictStep =>
            IsSuffix(Samples(device_traffic_history'[df[i].name]),
                     Samples(device_traffic_history[df[i].name]))
       /\ AggregateEvictStep =>
            IsSuffix(Samples(traffic_history'),
                     Samples(traffic_history))]_vars

C30_Witness ==
    /\ pc = "render"
    /\ ticks = 3
    /\ current_time = Horizon + Step
    /\ traffic_history.timestamps = <<Step, Horizon + Step>>
    /\ traffic_history.download_speeds[1] # traffic_history.download_speeds[2]

====
